---- MODULE Spec2Model ----
(***************************************************************************)
(* The handlebars_helper! macro of src/macros.rs: a helper specification   *)
(* (positional parameters, named parameters with defaults, *args,          *)
(* **kwargs, body) is expanded into a HelperDef whose call_inner binds the *)
(* arguments of one invocation, evaluates the body and wraps the result.   *)
(***************************************************************************)
EXTENDS Integers, Sequences, FiniteSets, TLC

\* Largest number of arguments (positional plus named) written at a call site.
MaxArgs == 3

(***************************************************************************)
(* Option<T> is a sequence of length at most one.                          *)
(***************************************************************************)
None == <<>>

Some(v) == <<v>>

(***************************************************************************)
(* serde_json::Value.  Every value is a record of the same shape: tag is   *)
(* the variant, n the numeric payload (0/1 for Bool, tenths for Float),    *)
(* s the string payload.  Array and Object are the empty containers.       *)
(***************************************************************************)
Value(tag, n, s) == [tag |-> tag, n |-> n, s |-> s]

Null == Value("Null", 0, "")

Bool(b) == Value("Bool", IF b THEN 1 ELSE 0, "")

PosInt(n) == Value("PosInt", n, "")

NegInt(n) == Value("NegInt", n, "")

Float(tenths) == Value("Float", tenths, "")

String(s) == Value("String", 0, s)

Array == Value("Array", 0, "")

Object == Value("Object", 0, "")

(***************************************************************************)
(* The Rust values the accessors hand to the body: ty is the Rust type,    *)
(* n and s the payloads, j the borrowed serde_json::Value of a reference   *)
(* type (&Value, &Map, &Vec).                                              *)
(***************************************************************************)
Native(ty, n, s, j) == [ty |-> ty, n |-> n, s |-> s, j |-> j]

U64(n) == Native("u64", n, "", <<>>)

I64(n) == Native("i64", n, "", <<>>)

F64(tenths) == Native("f64", tenths, "", <<>>)

Str(s) == Native("str", 0, s, <<>>)

RBool(b) == Native("bool", IF b THEN 1 ELSE 0, "", <<>>)

Unit == Native("unit", 0, "", <<>>)

Ref(ty, x) == Native(ty, 0, "", <<x>>)

\* The type tags of the @as_json_value arms.
Types == {"object", "array", "str", "i64", "u64", "f64", "bool", "null", "Json"}

as_object(x) == IF x.tag = "Object" THEN Some(Ref("map", x)) ELSE None

as_array(x) == IF x.tag = "Array" THEN Some(Ref("vec", x)) ELSE None

as_str(x) == IF x.tag = "String" THEN Some(Str(x.s)) ELSE None

\* Every integer of the model is below i64::MAX, so a PosInt always fits.
as_i64(x) == IF x.tag \in {"PosInt", "NegInt"} THEN Some(I64(x.n)) ELSE None

as_u64(x) == IF x.tag = "PosInt" THEN Some(U64(x.n)) ELSE None

as_f64(x) ==
  CASE x.tag = "Float" -> Some(F64(x.n))
    [] x.tag \in {"PosInt", "NegInt"} -> Some(F64(x.n * 10))
    [] OTHER -> None

as_bool(x) == IF x.tag = "Bool" THEN Some(RBool(x.n = 1)) ELSE None

as_null(x) == IF x.tag = "Null" THEN Some(Unit) ELSE None

\* handlebars_helper!(@as_json_value x, tpe)
as_json_value(x, tpe) ==
  CASE tpe = "object" -> as_object(x)
    [] tpe = "array" -> as_array(x)
    [] tpe = "str" -> as_str(x)
    [] tpe = "i64" -> as_i64(x)
    [] tpe = "u64" -> as_u64(x)
    [] tpe = "f64" -> as_f64(x)
    [] tpe = "bool" -> as_bool(x)
    [] tpe = "null" -> as_null(x)
    [] tpe = "Json" -> Some(Ref("Json", x))

\* $crate::JsonValue::from(result)
JsonValue_from(r) ==
  CASE r.ty = "u64" -> PosInt(r.n)
    [] r.ty = "i64" -> IF r.n < 0 THEN NegInt(r.n) ELSE PosInt(r.n)
    [] r.ty = "f64" -> Float(r.n)
    [] r.ty = "str" -> String(r.s)
    [] r.ty = "bool" -> Bool(r.n = 1)
    [] r.ty = "unit" -> Null
    [] OTHER -> r.j[1]

(***************************************************************************)
(* Identifiers and hash keys are str.  as_bytes is the UTF-8 content of    *)
(* the names the model uses; str's Ord compares these bytes.               *)
(***************************************************************************)
as_bytes(s) ==
  CASE s = "B" -> <<66>>
    [] s = "a" -> <<97>>
    [] s = "compare" -> <<99, 111, 109, 112, 97, 114, 101>>
    [] s = "x" -> <<120>>
    [] s = "y" -> <<121>>

RECURSIVE bytes_lt(_, _)
bytes_lt(a, b) ==
  IF b = <<>> THEN FALSE
  ELSE IF a = <<>> THEN TRUE
  ELSE IF Head(a) # Head(b) THEN Head(a) < Head(b)
  ELSE bytes_lt(Tail(a), Tail(b))

\* impl Ord for str
str_lt(a, b) == bytes_lt(as_bytes(a), as_bytes(b))

(***************************************************************************)
(* The Helper of one invocation (read only): params are the positional     *)
(* arguments in call order, hash the named arguments as [k, v] entries in  *)
(* the order the engine hands them out, one entry per key.                 *)
(***************************************************************************)
ParamValues ==
  { Null, Bool(TRUE), PosInt(10), PosInt(12), NegInt(-1), Float(15),
    String("s"), Array, Object }

HashValues == { PosInt(10), PosInt(20), Null }

Keys == { "B", "a", "compare" }

Entry(k, v) == [k |-> k, v |-> v]

HashEntries == { Entry(k, v) : k \in Keys, v \in HashValues }

DistinctKeys(q) == \A i, j \in 1..Len(q) : i # j => q[i].k # q[j].k

ParamSeqs(n) == [1..n -> ParamValues]

HashSeqs(n) == UNION { { q \in [1..m -> HashEntries] : DistinctKeys(q) } : m \in 0..n }

Invocations ==
  UNION { { [params |-> p, hash |-> q] : p \in ParamSeqs(n), q \in HashSeqs(MaxArgs - n) }
          : n \in 0..MaxArgs }

\* h.param(param_idx, r, ctx, rc)?
h_param(h, idx) == IF idx < Len(h.params) THEN Some(h.params[idx + 1]) ELSE None

\* h.params(r, ctx, rc)
h_params(h) == h.params

\* h.hash_get(stringify!($hash_name), r, ctx, rc)?
h_hash_get(h, key) ==
  IF \E i \in 1..Len(h.hash) : h.hash[i].k = key
  THEN Some(h.hash[CHOOSE i \in 1..Len(h.hash) : h.hash[i].k = key].v)
  ELSE None

\* h.hash(r, ctx, rc)
h_hash(h) == h.hash

(***************************************************************************)
(* The macro's input: $struct_name, the ($name: $tpe) list, the            *)
(* ($hash_name: $hash_tpe = $dft_val) block, *$args, **$kwargs and $body.  *)
(* dft_val is None where the literal was left out.                         *)
(***************************************************************************)
P(name, tpe) == [name |-> name, tpe |-> tpe]

N(hash_name, hash_tpe, dft_val) ==
  [hash_name |-> hash_name, hash_tpe |-> hash_tpe, dft_val |-> dft_val]

Lit(struct_name, positional, named, args, kwargs, body) ==
  [struct_name |-> struct_name, positional |-> positional, named |-> named,
   args |-> args, kwargs |-> kwargs, body |-> body]

\* handlebars_helper!(is_above_10: |x: u64| x > 10);
is_above_10 == Lit("is_above_10", <<P("x", "u64")>>, <<>>, FALSE, FALSE, "x > 10")

\* handlebars_helper!(is_above: |x: u64, { compare: u64 = 10 }| x > compare);
is_above ==
  Lit("is_above", <<P("x", "u64")>>, <<N("compare", "u64", Some(U64(10)))>>,
      FALSE, FALSE, "x > compare")

HelperLits ==
  { is_above_10, is_above }
  \cup { Lit("echo", <<P("x", t)>>, <<>>, FALSE, FALSE, "x") : t \in Types }
  \cup { Lit("pair", <<P("x", t1), P("y", t2)>>, <<>>, a, FALSE, "y")
         : t1 \in {"u64", "Json"}, t2 \in {"str", "null"}, a \in BOOLEAN }
  \cup { Lit("count", p, <<>>, TRUE, TRUE, "args.len()")
         : p \in { <<>>, <<P("x", "u64")>> } }
  \cup { Lit("opts", <<>>,
             <<N("compare", "u64", Some(U64(10))), N("a", "str", Some(Str("d")))>>,
             FALSE, k, "compare") : k \in BOOLEAN }
  \cup { Lit("mixed", <<P("x", "str")>>,
             <<N("a", "bool", Some(RBool(FALSE))), N("compare", "i64", Some(I64(-1)))>>,
             TRUE, TRUE, "kwargs.len()"),
         Lit("no_default", <<P("x", "u64")>>, <<N("compare", "u64", None)>>,
             FALSE, FALSE, "x > compare"),
         Lit("no_default2", <<>>,
             <<N("a", "str", Some(Str("d"))), N("compare", "u64", None)>>,
             FALSE, TRUE, "compare"),
         Lit("dup_pos", <<P("x", "u64"), P("x", "str")>>, <<>>, FALSE, FALSE, "x"),
         Lit("dup_mixed", <<P("x", "u64")>>, <<N("x", "u64", Some(U64(10)))>>,
             FALSE, FALSE, "x"),
         Lit("dup_hash", <<>>,
             <<N("compare", "u64", Some(U64(10))), N("compare", "u64", Some(U64(20)))>>,
             FALSE, FALSE, "compare") }

\* The macro pattern: a named parameter is $hash_name: $hash_tpe = $dft_val.
MacroMatches(lit) == \A i \in 1..Len(lit.named) : lit.named[i].dft_val # None

\* Expanding the macro: the struct and its HelperDef impl, or no expansion.
Compile(lit) == IF MacroMatches(lit) THEN Some(lit) ELSE None

(***************************************************************************)
(* RenderError::new(&format!(..)): the three messages of the expansion and *)
(* what each one prints.                                                   *)
(***************************************************************************)
RenderError(kind, helper, name, tpe, value, params, hash) ==
  [kind |-> kind, helper |-> helper, name |-> name, tpe |-> tpe,
   value |-> value, params |-> params, hash |-> hash]

\* "`{}` helper: Couldn't read parameter {}"
MissingParameter(helper, name) ==
  RenderError("MissingParameter", helper, name, "", None, None, None)

\* "`{}` helper: Couldn't convert parameter {} to type `{}`. It's {:?} as JSON.
\*  Got these params: {:?}"
TypeMismatch(helper, name, tpe, pv, params) ==
  RenderError("TypeMismatch", helper, name, tpe, Some(pv), Some(params), None)

\* "`{}` helper: Couldn't convert hash {} to type `{}`. It's {:?} as JSON.
\*  Got these hash: {:?}"
HashTypeMismatch(helper, name, tpe, x, hash) ==
  RenderError("HashTypeMismatch", helper, name, tpe, Some(x), None, Some(hash))

\* Result<Option<ScopedJson>, RenderError>
Ok(val) == [ok |-> TRUE, val |-> val, err |-> None]

Err(e) == [ok |-> FALSE, val |-> None, err |-> Some(e)]

\* ScopedJson::Derived(value)
Derived(value) == [scope |-> "Derived", value |-> value]

(***************************************************************************)
(* The frame of one call_inner: param_idx, the let-bindings made so far    *)
(* (locals, in the order made), the two captures, the body's value, the    *)
(* parameters whose binding statements ran (examined) and the value the    *)
(* function returned (ret), None while it runs.                            *)
(***************************************************************************)
Frame0 ==
  [param_idx |-> 0, locals |-> <<>>, args |-> None, kwargs |-> None,
   result |-> None, examined |-> <<>>, ret |-> None]

Returned(f) == Len(f.ret) = 1

\* A `?` that takes the error branch.
Raise(f, e) == [f EXCEPT !.ret = Some(Err(e))]

\* let $name = ..: a later binding of the same name shadows an earlier one.
Let(f, name, val) == [f EXCEPT !.locals = Append(@, [name |-> name, val |-> val])]

Lookup(locals, name) ==
  locals[CHOOSE i \in 1..Len(locals) :
           /\ locals[i].name = name
           /\ \A j \in (i + 1)..Len(locals) : locals[j].name # name].val

\* positional_step with an absent argument read as null.
positional_step_absent_as_null(spec, h, f, i) ==
  LET decl == spec.positional[i]
      param == h_param(h, f.param_idx)
      f1 == [f EXCEPT !.examined = Append(@, [kind |-> "param", idx |-> i])]
      pv == IF Len(param) = 0 THEN Null ELSE param[1]
      c == as_json_value(pv, decl.tpe)
  IN IF Len(c) = 0
     THEN Raise(f1, TypeMismatch(spec.struct_name, decl.name, decl.tpe,
                                 pv, h_params(h)))
     ELSE [Let(f1, decl.name, c[1]) EXCEPT !.param_idx = @ + 1]

\* positional_step with the first message used for a failed conversion too.
positional_step_one_message(spec, h, f, i) ==
  LET decl == spec.positional[i]
      param == h_param(h, f.param_idx)
      f1 == [f EXCEPT !.examined = Append(@, [kind |-> "param", idx |-> i])]
  IN IF Len(param) = 0 \/ Len(as_json_value(param[1], decl.tpe)) = 0
     THEN Raise(f1, MissingParameter(spec.struct_name, decl.name))
     ELSE [Let(f1, decl.name, as_json_value(param[1], decl.tpe)[1])
             EXCEPT !.param_idx = @ + 1]

\* One expansion of the positional repetition, for the i-th ($name: $tpe).
positional_step(spec, h, f, i) ==
  LET decl == spec.positional[i]
      param == h_param(h, f.param_idx)
      f1 == [f EXCEPT !.examined = Append(@, [kind |-> "param", idx |-> i])]
  IN IF Len(param) = 0
     THEN Raise(f1, MissingParameter(spec.struct_name, decl.name))
     ELSE LET pv == param[1]
              c == as_json_value(pv, decl.tpe)
          IN IF Len(c) = 0
             THEN Raise(f1, TypeMismatch(spec.struct_name, decl.name, decl.tpe,
                                         pv, h_params(h)))
             ELSE [Let(f1, decl.name, c[1]) EXCEPT !.param_idx = @ + 1]

\* bind_positional that rejects arguments beyond the declared ones.
RECURSIVE bind_positional_exact(_, _, _, _)
bind_positional_exact(spec, h, f, i) ==
  IF Returned(f) THEN f
  ELSE IF i > Len(spec.positional)
  THEN IF Len(h_params(h)) > Len(spec.positional)
       THEN Raise(f, RenderError("TooManyParameters", spec.struct_name, "", "",
                                 None, Some(h_params(h)), None))
       ELSE f
  ELSE bind_positional_exact(spec, h, positional_step(spec, h, f, i), i + 1)

RECURSIVE bind_positional(_, _, _, _)
bind_positional(spec, h, f, i) ==
  IF i > Len(spec.positional) \/ Returned(f) THEN f
  ELSE bind_positional(spec, h, positional_step(spec, h, f, i), i + 1)

\* hash_step with the default used for an entry that fails the conversion.
hash_step_default_on_mismatch(spec, h, f, i) ==
  LET decl == spec.named[i]
      hash == h_hash_get(h, decl.hash_name)
      f1 == [f EXCEPT !.examined = Append(@, [kind |-> "hash", idx |-> i])]
      c == IF Len(hash) = 0 THEN None ELSE as_json_value(hash[1], decl.hash_tpe)
  IN IF Len(c) = 0 THEN Let(f1, decl.hash_name, decl.dft_val[1])
     ELSE Let(f1, decl.hash_name, c[1])

\* One expansion of the hash repetition, for the i-th
\* ($hash_name: $hash_tpe = $dft_val).
hash_step(spec, h, f, i) ==
  LET decl == spec.named[i]
      hash == h_hash_get(h, decl.hash_name)
      f1 == [f EXCEPT !.examined = Append(@, [kind |-> "hash", idx |-> i])]
  IN IF Len(hash) = 0
     THEN Let(f1, decl.hash_name, decl.dft_val[1])
     ELSE LET xv == hash[1]
              c == as_json_value(xv, decl.hash_tpe)
          IN IF Len(c) = 0
             THEN Raise(f1, HashTypeMismatch(spec.struct_name, decl.hash_name,
                                             decl.hash_tpe, xv, h_hash(h)))
             ELSE Let(f1, decl.hash_name, c[1])

RECURSIVE bind_hash(_, _, _, _)
bind_hash(spec, h, f, i) ==
  IF i > Len(spec.named) \/ Returned(f) THEN f
  ELSE bind_hash(spec, h, hash_step(spec, h, f, i), i + 1)

\* collect_args with only the arguments no declared parameter consumed.
collect_args_rest(spec, h, f) ==
  IF spec.args
  THEN [f EXCEPT !.args = Some(SubSeq(h_params(h), f.param_idx + 1, Len(h_params(h))))]
  ELSE f

\* let $args = params.iter().map(|x| x.value()).collect::<Vec<&Value>>();
collect_args(spec, h, f) ==
  IF spec.args THEN [f EXCEPT !.args = Some(h_params(h))] ELSE f

\* btree_insert keeping the entries in the order they arrive.
btree_insert_at_end(m, e) == Append(m, e)

\* BTreeMap::insert: the entries stay sorted by key, one entry per key.
RECURSIVE btree_insert(_, _)
btree_insert(m, e) ==
  IF m = <<>> THEN <<e>>
  ELSE IF Head(m).k = e.k THEN <<e>> \o Tail(m)
  ELSE IF str_lt(e.k, Head(m).k) THEN <<e>> \o m
  ELSE <<Head(m)>> \o btree_insert(Tail(m), e)

\* .collect::<BTreeMap<&str, &Value>>()
RECURSIVE btree_collect(_)
btree_collect(entries) ==
  IF entries = <<>> THEN <<>>
  ELSE btree_insert(btree_collect(SubSeq(entries, 1, Len(entries) - 1)),
                    entries[Len(entries)])

\* let $kwargs = hash.iter().map(|(k, v)| (k.to_owned(), v.value())).collect();
collect_kwargs(spec, h, f) ==
  IF spec.kwargs THEN [f EXCEPT !.kwargs = Some(btree_collect(h_hash(h)))] ELSE f

\* x >= compare
is_above_body_ge(x, compare) == x >= compare

\* The body of is_above: x > compare
is_above_body(x, compare) == x > compare

\* let result = $body;
eval_body(spec, f) ==
  LET v(name) == Lookup(f.locals, name)
      result ==
        CASE spec.body = "x > 10" -> RBool(v("x").n > 10)
          [] spec.body = "x > compare" -> RBool(is_above_body(v("x").n, v("compare").n))
          [] spec.body = "x" -> v("x")
          [] spec.body = "y" -> v("y")
          [] spec.body = "compare" -> v("compare")
          [] spec.body = "args.len()" -> U64(Len(f.args[1]))
          [] spec.body = "kwargs.len()" -> U64(Len(f.kwargs[1]))
  IN [f EXCEPT !.result = Some(result)]

\* wrap that hands a borrowed value back as a value of the context.
wrap_borrowed(f) ==
  IF f.result[1].ty = "Json"
  THEN [f EXCEPT !.ret = Some(Ok(Some([scope |-> "Context", value |-> f.result[1].j[1]])))]
  ELSE [f EXCEPT !.ret = Some(Ok(Some(Derived(JsonValue_from(f.result[1])))))]

\* Ok(Some($crate::ScopedJson::Derived($crate::JsonValue::from(result))))
wrap(f) == [f EXCEPT !.ret = Some(Ok(Some(Derived(JsonValue_from(f.result[1])))))]

\* call_inner that binds every parameter and reports the last failure.
call_inner_last_failure(spec, h) ==
  LET f1 == bind_positional(spec, h, Frame0, 1)
      f2 == bind_hash(spec, h, [f1 EXCEPT !.ret = None], 1)
  IN IF Returned(f2) THEN f2
     ELSE IF Returned(f1) THEN [f2 EXCEPT !.ret = f1.ret]
     ELSE wrap(eval_body(spec, collect_kwargs(spec, h, collect_args(spec, h, f2))))

\* fn call_inner(&self, h, r, ctx, rc): the frame at its return.
call_inner(spec, h) ==
  LET f1 == bind_positional(spec, h, Frame0, 1)
      f2 == IF Returned(f1) THEN f1 ELSE bind_hash(spec, h, f1, 1)
  IN IF Returned(f2) THEN f2
     ELSE wrap(eval_body(spec, collect_kwargs(spec, h, collect_args(spec, h, f2))))

(***************************************************************************)
(* lit is the macro invocation in the program text, helper its expansion   *)
(* (None when the macro does not expand), h the invocation in progress and *)
(* out the frame call_inner returned for it.                               *)
(***************************************************************************)
VARIABLES lit, helper, h, out

vars == <<lit, helper, h, out>>

Init ==
  /\ lit \in HelperLits
  /\ helper = Compile(lit)
  /\ h = None
  /\ out = None

\* The engine calls the helper with one invocation.
Call ==
  /\ Len(helper) = 1
  /\ Len(h) = 0
  /\ \E inv \in Invocations :
       /\ h' = Some(inv)
       /\ out' = Some(call_inner(helper[1], inv))
  /\ UNCHANGED <<lit, helper>>

\* The engine takes the result; nothing of the invocation is kept.
Finish ==
  /\ Len(h) = 1
  /\ h' = None
  /\ out' = None
  /\ UNCHANGED <<lit, helper>>

Next == Call \/ Finish

Spec == Init /\ [][Next]_vars

(***************************************************************************)
(* What the properties below talk about: a finished call, and whether one  *)
(* declared parameter binds, read off the specification and the invocation *)
(* alone.                                                                  *)
(***************************************************************************)
Called == Len(out) = 1

Supplied == Len(h[1].params)

Declared == Len(helper[1].positional)

PositionalPasses(i) ==
  /\ i <= Supplied
  /\ Len(as_json_value(h[1].params[i], helper[1].positional[i].tpe)) = 1

HasEntry(key) == \E e \in 1..Len(h[1].hash) : h[1].hash[e].k = key

EntryOf(key) == h[1].hash[CHOOSE e \in 1..Len(h[1].hash) : h[1].hash[e].k = key].v

NamedPasses(j) ==
  LET decl == helper[1].named[j]
  IN HasEntry(decl.hash_name) =>
       Len(as_json_value(EntryOf(decl.hash_name), decl.hash_tpe)) = 1

TheError == out[1].ret[1].err[1]

Failed == Called /\ ~out[1].ret[1].ok

C2_TypeMismatch ==
  Called =>
    \A i \in 1..Declared :
      (/\ i <= Supplied
       /\ ~PositionalPasses(i)
       /\ \A e \in 1..(i - 1) : PositionalPasses(e)) =>
        /\ Failed
        /\ TheError.kind # "MissingParameter"
        /\ TheError = TypeMismatch(helper[1].struct_name,
                                   helper[1].positional[i].name,
                                   helper[1].positional[i].tpe,
                                   h[1].params[i], h[1].params)

C2_Witness ==
  /\ Called /\ Declared = 2 /\ Supplied = 3
  /\ PositionalPasses(1) /\ ~PositionalPasses(2)
  /\ Failed /\ TheError.kind = "TypeMismatch" /\ TheError.name = "y"
  /\ Len(TheError.params[1]) = 3

\* The binding the j-th declared named parameter made: the let-bindings are
\* made in declaration order, positional first.
HashBinding(j) == out[1].locals[Declared + j]

AllPositionalPass == \A i \in 1..Declared : PositionalPasses(i)

\* C3 as stated: for every declared named parameter, an absent entry binds
\* the default, a passing entry binds the coerced value and a failing entry
\* fails the invocation with HashTypeMismatch naming the key and the type.
C3_AsStated ==
  Called =>
    \A j \in 1..Len(helper[1].named) :
      LET decl == helper[1].named[j]
      IN /\ (~HasEntry(decl.hash_name) /\ ~Failed) =>
              HashBinding(j) = [name |-> decl.hash_name, val |-> decl.dft_val[1]]
         /\ (HasEntry(decl.hash_name) /\ NamedPasses(j) /\ ~Failed) =>
              HashBinding(j) =
                [name |-> decl.hash_name,
                 val |-> as_json_value(EntryOf(decl.hash_name), decl.hash_tpe)[1]]
         /\ (HasEntry(decl.hash_name) /\ ~NamedPasses(j)) =>
              /\ Failed
              /\ TheError.kind = "HashTypeMismatch"
              /\ TheError.name = decl.hash_name
              /\ TheError.tpe = decl.hash_tpe

\* C3 amended: the same, for a named parameter all of whose predecessors in
\* the binding order (positional, then earlier named) bind.
C3_HashBinding ==
  Called =>
    \A j \in 1..Len(helper[1].named) :
      LET decl == helper[1].named[j]
      IN (AllPositionalPass /\ \A e \in 1..(j - 1) : NamedPasses(e)) =>
           /\ ~HasEntry(decl.hash_name) =>
                /\ Len(out[1].locals) >= Declared + j
                /\ HashBinding(j) = [name |-> decl.hash_name, val |-> decl.dft_val[1]]
           /\ (HasEntry(decl.hash_name) /\ NamedPasses(j)) =>
                /\ Len(out[1].locals) >= Declared + j
                /\ HashBinding(j) =
                     [name |-> decl.hash_name,
                      val |-> as_json_value(EntryOf(decl.hash_name), decl.hash_tpe)[1]]
           /\ (HasEntry(decl.hash_name) /\ ~NamedPasses(j)) =>
                /\ Failed
                /\ TheError = HashTypeMismatch(helper[1].struct_name, decl.hash_name,
                                               decl.hash_tpe, EntryOf(decl.hash_name),
                                               h[1].hash)
                /\ Len(out[1].locals) = Declared + j - 1

C3_Witness ==
  /\ Called /\ lit = is_above /\ AllPositionalPass
  /\ HasEntry("compare") /\ EntryOf("compare") = Null
  /\ Failed /\ TheError.kind = "HashTypeMismatch"

(***************************************************************************)
(* The binding order: positions 1..n are the positional parameters, the    *)
(* positions after them the named parameters, each in declaration order.   *)
(***************************************************************************)
Positions == 1..(Declared + Len(helper[1].named))

FailsAt(pos) ==
  IF pos <= Declared THEN ~PositionalPasses(pos) ELSE ~NamedPasses(pos - Declared)

FirstFailure == CHOOSE pos \in Positions : FailsAt(pos) /\ \A q \in 1..(pos - 1) : ~FailsAt(q)

ErrorAt(pos) ==
  IF pos <= Declared
  THEN LET decl == helper[1].positional[pos]
       IN IF pos > Supplied
          THEN MissingParameter(helper[1].struct_name, decl.name)
          ELSE TypeMismatch(helper[1].struct_name, decl.name, decl.tpe,
                            h[1].params[pos], h[1].params)
  ELSE LET decl == helper[1].named[pos - Declared]
       IN HashTypeMismatch(helper[1].struct_name, decl.hash_name, decl.hash_tpe,
                           EntryOf(decl.hash_name), h[1].hash)

ExaminedUpTo(pos) ==
  [i \in 1..pos |-> IF i <= Declared THEN [kind |-> "param", idx |-> i]
                    ELSE [kind |-> "hash", idx |-> i - Declared]]

\* C4: when some declared parameter fails to bind, the invocation's error is
\* that of the earliest one in the order positional then named; no later
\* parameter is examined, no capture is collected, the body is not evaluated
\* and no success value is produced.
C4_FirstFailureWins ==
  (Called /\ \E pos \in Positions : FailsAt(pos)) =>
    /\ Failed
    /\ TheError = ErrorAt(FirstFailure)
    /\ out[1].examined = ExaminedUpTo(FirstFailure)
    /\ out[1].args = None
    /\ out[1].kwargs = None
    /\ out[1].result = None
    /\ out[1].ret[1].val = None

C4_Witness ==
  /\ Called /\ helper[1].args /\ helper[1].kwargs
  /\ \E p, q \in Positions : p <= Declared /\ q > Declared /\ FailsAt(p) /\ FailsAt(q)
  /\ Failed /\ TheError.kind = "TypeMismatch"

\* C5: a declared *args capture of a successful invocation is the sequence
\* of all supplied positional arguments, in order, including those bound to
\* declared parameters.
C5_ArgsCapture ==
  (Called /\ helper[1].args /\ ~Failed) =>
    /\ Len(out[1].args) = 1
    /\ Len(out[1].args[1]) = Supplied
    /\ \A i \in 1..Supplied : out[1].args[1][i] = h[1].params[i]

C5_Witness ==
  /\ Called /\ helper[1].args /\ ~Failed
  /\ Declared = 2 /\ Supplied = 3
  /\ out[1].args[1][1] = h[1].params[1]

\* a sorts before b in the byte-wise lexicographic order of their names.
LexBefore(a, b) ==
  LET x == as_bytes(a)
      y == as_bytes(b)
  IN \E i \in 1..(Len(y)) :
       /\ \A e \in 1..(i - 1) : e <= Len(x) /\ x[e] = y[e]
       /\ (i > Len(x) \/ x[i] < y[i])

\* C6: a declared **kwargs capture holds exactly the supplied named
\* arguments, one entry each, and lists them in strictly ascending
\* lexicographic order of name whatever the order they were supplied in.
C6_KwargsSorted ==
  (Called /\ helper[1].kwargs /\ ~Failed) =>
    /\ Len(out[1].kwargs) = 1
    /\ LET m == out[1].kwargs[1]
       IN /\ Len(m) = Len(h[1].hash)
          /\ {m[i] : i \in 1..Len(m)} = {h[1].hash[i] : i \in 1..Len(h[1].hash)}
          /\ \A i \in 1..(Len(m) - 1) : LexBefore(m[i].k, m[i + 1].k)

C6_Witness ==
  /\ Called /\ helper[1].kwargs /\ ~Failed
  /\ Len(h[1].hash) = 3
  /\ h[1].hash[1].k = "compare" /\ h[1].hash[2].k = "a" /\ h[1].hash[3].k = "B"
  /\ out[1].kwargs[1][1].k = "B"

\* What the engine sees of a call: success value, or error message and
\* parameter.
Outcome(f) ==
  IF f.ret[1].ok THEN [ok |-> TRUE, val |-> f.ret[1].val, kind |-> "", name |-> ""]
  ELSE [ok |-> FALSE, val |-> None, kind |-> f.ret[1].err[1].kind,
        name |-> f.ret[1].err[1].name]

FirstN == [h[1] EXCEPT !.params = SubSeq(@, 1, Declared)]

\* C7: without an *args capture, an invocation with the n declared arguments
\* and k >= 0 further ones has the outcome of the invocation with only the
\* first n.
C7_ExtrasIgnored ==
  (Called /\ ~helper[1].args /\ Supplied >= Declared) =>
    Outcome(out[1]) = Outcome(call_inner(helper[1], FirstN))

C7_Witness ==
  /\ Called /\ ~helper[1].args /\ Declared = 1 /\ Supplied = 3
  /\ h[1].params[1] = PosInt(12) /\ h[1].params[2] = Null /\ h[1].params[3] = Object
  /\ ~Failed

\* C8: an invocation all of whose declared parameters bind returns
\* Ok(Some(Derived(v))), v the conversion of the value of the body.
C8_DerivedResult ==
  (Called /\ \A pos \in Positions : ~FailsAt(pos)) =>
    /\ out[1].ret[1].ok
    /\ Len(out[1].ret[1].val) = 1
    /\ Len(out[1].result) = 1
    /\ out[1].ret[1].val[1].scope = "Derived"
    /\ out[1].ret[1].val[1].value = JsonValue_from(out[1].result[1])

C8_Witness ==
  /\ Called /\ Declared = 1 /\ helper[1].positional[1].tpe = "Json"
  /\ helper[1].body = "x" /\ Supplied = 1 /\ h[1].params[1] = Object
  /\ out[1].ret[1].val[1] = Derived(Object)

\* C9: is_above called with (x) returns the boolean x > 10, and called with
\* (x, compare=c) the boolean x > c, for unsigned x and c.
C9_IsAbove ==
  (Called /\ lit = is_above /\ Supplied = 1 /\ h[1].params[1].tag = "PosInt") =>
    LET x == h[1].params[1].n
    IN /\ h[1].hash = <<>> => out[1].ret[1] = Ok(Some(Derived(Bool(x > 10))))
       /\ \A c \in 0..20 :
            h[1].hash = <<Entry("compare", PosInt(c))>> =>
              out[1].ret[1] = Ok(Some(Derived(Bool(x > c))))

C9_Witness ==
  /\ Called /\ lit = is_above /\ h[1].params = <<PosInt(12)>>
  /\ h[1].hash = <<Entry("compare", PosInt(20))>>
  /\ out[1].ret[1] = Ok(Some(Derived(Bool(FALSE))))

DuplicateNames(l) ==
  LET names == [i \in 1..(Len(l.positional) + Len(l.named)) |->
                  IF i <= Len(l.positional) THEN l.positional[i].name
                  ELSE l.named[i - Len(l.positional)].hash_name]
  IN \E i, j \in DOMAIN names : i # j /\ names[i] = names[j]

MissingDefault(l) == \E i \in 1..Len(l.named) : l.named[i].dft_val = None

\* C10: a specification with a named parameter without default, or with two
\* parameters of the same name, yields no helper, and so no invocation that
\* binds or returns.
C10_InvalidNeverCompiles ==
  (MissingDefault(lit) \/ DuplicateNames(lit)) => (helper = None /\ out = None)
====
